---- MODULE Spec2Model ----
(***************************************************************************)
(* Collection-level CRUD and bulk-write engine of the MongoDB driver        *)
(* (src/src/client/coll/mod.rs).  Every public method is one action; the    *)
(* server's reply and the ObjectId generator's outcome are the inputs the   *)
(* environment chooses.  The state is the collection's default write        *)
(* concern, the process-wide ObjectId counter, and a record of the last     *)
(* call: its arguments, the events (validation, dispatch) it produced in    *)
(* program order, and the value it returned.  The buffered connection       *)
(* (src/src/buf_connection.rs) is the struct conn, with the message of the  *)
(* panic that ended its thread, if any, in panic.                           *)
(***************************************************************************)
EXTENDS Integers, Sequences, FiniteSets, TLC

VARIABLES write_concern, oid_counter, call, events, ret, conn, panic

vars == <<write_concern, oid_counter, call, events, ret, conn, panic>>

\* Longest document list given to insert_many.
MaxDocs == 3
\* Number of ObjectIds the generator hands out before the model stops inserting.
MaxOid == 4
\* Longest request list given to bulk_write.
MaxRequests == 4
\* Most bytes the peer sends on a connection.
MaxIn == 2
\* Largest buffer given to read and longest slice given to write.
MaxIo == 2
\* Most bytes held unflushed in the write buffer.
MaxBuf == 2
\* Most bytes sent to the peer on a connection.
MaxWire == 3

--------------------------------------------------------------------------
\* Option<T> and Result<T>

None == <<>>
Some(x) == <<x>>
is_some(o) == Len(o) = 1
unwrap(o) == o[1]
unwrap_or(o, d) == IF Len(o) = 1 THEN o[1] ELSE d

Ok(v) == [ok |-> TRUE, val |-> v]
Err(e) == [ok |-> FALSE, err |-> e]

ArgumentError == [kind |-> "ArgumentError"]
OperationError == [kind |-> "OperationError"]
IoError == [kind |-> "IoError"]
OIDError == [kind |-> "OIDError"]

--------------------------------------------------------------------------
\* BSON documents: an ordered list of (key, value); a key is a string, kept
\* as its sequence of characters so that starts_with is computed.

K_id == <<"_", "i", "d">>
K_a == <<"a">>
K_set == <<"$", "s", "e", "t">>
K_inc == <<"$", "i", "n", "c">>
K_a_dollar == <<"a", "$">>
K_empty == <<>>

I32(n) == [t |-> "i32", v |-> n]
ObjectId(n) == [t |-> "oid", v |-> n]

starts_with(key, ch) == Len(key) >= 1 /\ key[1] = ch

keys(doc) == [i \in 1..Len(doc) |-> doc[i].k]

RECURSIVE doc_get_from(_, _, _)
doc_get_from(doc, key, i) ==
    IF i > Len(doc) THEN None
    ELSE IF doc[i].k = key THEN Some(doc[i].v)
    ELSE doc_get_from(doc, key, i + 1)

doc_get(doc, key) == doc_get_from(doc, key, 1)

\* Document::insert of the ordered document: a new key goes to the end, an
\* existing key keeps its place and takes the new value.
doc_insert(doc, key, val) ==
    IF is_some(doc_get(doc, key))
    THEN [i \in 1..Len(doc) |-> IF doc[i].k = key THEN [k |-> key, v |-> val] ELSE doc[i]]
    ELSE Append(doc, [k |-> key, v |-> val])

\* BTreeMap<i64, Bson>
map_new == <<>>
map_insert(m, key, val) == [x \in (DOMAIN m) \cup {key} |-> IF x = key THEN val ELSE m[x]]
map_remove(m, key) == [x \in (DOMAIN m) \ {key} |-> m[x]]

--------------------------------------------------------------------------
\* Write concerns

WC(w) == [w |-> w]
WriteConcerns == {WC(0), WC(1)}
OptWriteConcerns == {None} \cup {Some(wc) : wc \in WriteConcerns}

--------------------------------------------------------------------------
\* Events of one call, in program order.

EvValidate(okv) == [ev |-> IF okv THEN "validate_ok" ELSE "validate_err", cmd |-> None]
EvDispatch(cmd) == [ev |-> "dispatch", cmd |-> Some(cmd)]

dispatched(evs) == SelectSeq(evs, LAMBDA e : e.ev = "dispatch")

--------------------------------------------------------------------------
\* The server's reply to a write command, as the dispatcher returns it:
\* either a transport error or a reply document with its writeErrors array
\* and writeConcernError.

WErr(i) == [index |-> i, code |-> 11000]
WCErr == [code |-> 64]

RECURSIVE SortedErrors(_, _, _)
SortedErrors(F, i, n) ==
    IF i >= n THEN <<>>
    ELSE IF i \in F THEN <<WErr(i)>> \o SortedErrors(F, i + 1, n)
    ELSE SortedErrors(F, i + 1, n)

Min(S) == CHOOSE x \in S : \A y \in S : x <= y

\* The server reports one error per failing document; an ordered command
\* stops at the first failing document and reports only that one.
ReportedErrors(F, ordered, n) ==
    IF F = {} THEN <<>>
    ELSE IF ordered THEN <<WErr(Min(F))>>
    ELSE SortedErrors(F, 0, n)

IoReply ==
    [io |-> TRUE, n |-> 0, writeErrors |-> <<>>, writeConcernError |-> None,
     value |-> None]

DocReply(n, errs, wce) ==
    [io |-> FALSE, n |-> n, writeErrors |-> errs, writeConcernError |-> wce,
     value |-> None]

InsertReplies(n, ordered) ==
    {IoReply} \cup
    {DocReply(n - Len(ReportedErrors(F, ordered, n)), ReportedErrors(F, ordered, n), wce) :
        F \in SUBSET (0..(n - 1)), wce \in {None, Some(WCErr)}}

\* db.command(cmd)
command(reply) == IF reply.io THEN Err(IoError) ELSE Ok(reply)

--------------------------------------------------------------------------
\* Result validator (client::coll::error)

BulkWriteException_new(processed, unprocessed, write_errors, wce) ==
    [processed_requests |-> processed, unprocessed_requests |-> unprocessed,
     write_errors |-> write_errors, write_concern_error |-> wce]

BulkWriteError(exc) == [kind |-> "BulkWriteError", exc |-> exc]
WriteError(exc) == [kind |-> "WriteError", exc |-> exc]

validate_bulk_write_result(reply, wc) ==
    IF wc.w = 0 THEN Ok(<<>>)
    ELSE IF Len(reply.writeErrors) > 0 \/ is_some(reply.writeConcernError)
    THEN Err(BulkWriteError(BulkWriteException_new(<<>>, <<>>, reply.writeErrors,
                                                   reply.writeConcernError)))
    ELSE Ok(<<>>)

WriteException_new(write_error, wce) ==
    [write_error |-> write_error, write_concern_error |-> wce]

validate_write_result(reply, wc) ==
    IF wc.w = 0 THEN Ok(<<>>)
    ELSE IF Len(reply.writeErrors) > 0 \/ is_some(reply.writeConcernError)
    THEN Err(WriteError(WriteException_new(
                 IF Len(reply.writeErrors) > 0 THEN Some(reply.writeErrors[1]) ELSE None,
                 reply.writeConcernError)))
    ELSE Ok(<<>>)

\* The first write error of the bulk exception becomes the single write error.
with_bulk_exception(bulk) ==
    WriteException_new(
        IF Len(bulk.write_errors) > 0 THEN Some(bulk.write_errors[1]) ELSE None,
        bulk.write_concern_error)

--------------------------------------------------------------------------
\* Result shapes (client::coll::results)

InsertOneResult_new(id, exception) ==
    [inserted_id |-> id, write_exception |-> exception]

InsertManyResult_new(ids, exception) ==
    [inserted_ids |-> ids, bulk_write_exception |-> exception]

--------------------------------------------------------------------------
\* Collection::insert

\* The loop over the documents: record each document's _id, generating one
\* when the document has none.  oid is the generator's counter; oid_fail
\* says that ObjectId::new() returns an error.
RECURSIVE convert_docs(_, _, _, _, _, _)
convert_docs(docs, i, converted_docs, ids, oid, oid_fail) ==
    IF i > Len(docs)
    THEN [res |-> Ok([converted_docs |-> converted_docs, ids |-> ids]), oid |-> oid]
    ELSE LET doc == docs[i]
             got == doc_get(doc, K_id)
         IN IF is_some(got)
            THEN convert_docs(docs, i + 1, Append(converted_docs, doc),
                              Append(ids, unwrap(got)), oid, oid_fail)
            ELSE IF oid_fail
            THEN [res |-> Err(OIDError), oid |-> oid]
            ELSE LET id == ObjectId(oid + 1)
                 IN convert_docs(docs, i + 1,
                                 Append(converted_docs, doc_insert(doc, K_id, id)),
                                 Append(ids, id), oid + 1, oid_fail)

InsertCmd(docs, ordered, wc) ==
    [verb |-> "insert", documents |-> docs, ordered |-> ordered, writeConcern |-> wc]

\* The match on the validator's result, lines 386-391.
insert_exception_mutant(exception_res) ==
    IF exception_res.ok THEN Ok(None)
    ELSE IF exception_res.err.kind = "BulkWriteError" THEN Ok(None)
    ELSE Err(exception_res.err)

insert_exception(exception_res) ==
    IF exception_res.ok THEN Ok(None)
    ELSE IF exception_res.err.kind = "BulkWriteError" THEN Ok(Some(exception_res.err.exc))
    ELSE Err(exception_res.err)

\* Returns the call's result, the events it produced and the generator's counter.
insert(docs, ordered, wc_opt, default_wc, oid, oid_fail, reply) ==
    LET wc == unwrap_or(wc_opt, default_wc)
        conv == convert_docs(docs, 1, <<>>, <<>>, oid, oid_fail)
    IN IF ~conv.res.ok
       THEN [ret |-> conv.res, events |-> <<>>, oid |-> conv.oid]
       ELSE LET cmd == InsertCmd(conv.res.val.converted_docs, ordered, wc)
                evs == <<EvDispatch(cmd)>>
                result == command(reply)
            IN IF ~result.ok
               THEN [ret |-> result, events |-> evs, oid |-> conv.oid]
               ELSE LET exception == insert_exception(
                                         validate_bulk_write_result(result.val, wc))
                    IN IF ~exception.ok
                       THEN [ret |-> exception, events |-> evs, oid |-> conv.oid]
                       ELSE [ret |-> Ok([ids |-> conv.res.val.ids,
                                         exception |-> exception.val]),
                             events |-> evs, oid |-> conv.oid]

--------------------------------------------------------------------------
\* Collection::insert_one

\* The id reported by insert_one, lines 411-417.
insert_one_id_mutant(ids, exception) == Some(ids[1])

insert_one_id(ids, exception) ==
    IF is_some(exception)
    THEN IF is_some(unwrap(exception).write_error) THEN None ELSE Some(ids[1])
    ELSE Some(ids[1])

insert_one(doc, wc_opt, default_wc, oid, oid_fail, reply) ==
    LET r == insert(<<doc>>, TRUE, wc_opt, default_wc, oid, oid_fail, reply)
    IN IF ~r.ret.ok THEN r
       ELSE LET ids == r.ret.val.ids
                bulk_exception == r.ret.val.exception
            IN IF Len(ids) = 0
               THEN [r EXCEPT !.ret = Err(OperationError)]
               ELSE LET exception == IF is_some(bulk_exception)
                                     THEN Some(with_bulk_exception(unwrap(bulk_exception)))
                                     ELSE None
                    IN [r EXCEPT !.ret = Ok(InsertOneResult_new(
                                               insert_one_id(ids, exception), exception))]

--------------------------------------------------------------------------
\* Collection::insert_many

\* The loop of lines 430-432 stopping one id short.
RECURSIVE ids_to_map_mutant(_, _, _)
ids_to_map_mutant(ids, i, map) ==
    IF i + 1 >= Len(ids) THEN map
    ELSE ids_to_map_mutant(ids, i + 1, map_insert(map, i, ids[i + 1]))

RECURSIVE ids_to_map(_, _, _)
ids_to_map(ids, i, map) ==
    IF i >= Len(ids) THEN map
    ELSE ids_to_map(ids, i + 1, map_insert(map, i, ids[i + 1]))

\* The loop of lines 435-437 removing the first error's index only.
RECURSIVE remove_errors_mutant(_, _, _)
remove_errors_mutant(write_errors, j, map) ==
    IF j > Len(write_errors) \/ j > 1 THEN map
    ELSE remove_errors_mutant(write_errors, j + 1, map_remove(map, write_errors[j].index))

RECURSIVE remove_errors(_, _, _)
remove_errors(write_errors, j, map) ==
    IF j > Len(write_errors) THEN map
    ELSE remove_errors(write_errors, j + 1, map_remove(map, write_errors[j].index))

insert_many(docs, ordered, wc_opt, default_wc, oid, oid_fail, reply) ==
    LET r == insert(docs, ordered, wc_opt, default_wc, oid, oid_fail, reply)
    IN IF ~r.ret.ok THEN r
       ELSE LET ids == r.ret.val.ids
                exception == r.ret.val.exception
                full == ids_to_map(ids, 0, map_new)
                map == IF is_some(exception)
                       THEN remove_errors(unwrap(exception).write_errors, 1, full)
                       ELSE full
            IN [r EXCEPT !.ret = Ok(InsertManyResult_new(Some(map), exception))]

--------------------------------------------------------------------------
\* Collection::delete, delete_one, delete_many

DeleteResult_new(result, exception) ==
    [deleted_count |-> result.n, write_exception |-> exception]

UpdateResult_new(result, exception) ==
    [matched_count |-> result.n, write_exception |-> exception]

\* The match on the validator's result, lines 460-464 and 502-506.
write_exception(exception_res) ==
    IF exception_res.ok THEN Ok(None)
    ELSE IF exception_res.err.kind = "WriteError" THEN Ok(Some(exception_res.err.exc))
    ELSE Err(exception_res.err)

DeleteCmd(filter, limit, wc) ==
    [verb |-> "delete", deletes |-> <<[q |-> filter, limit |-> limit]>>,
     writeConcern |-> wc]

delete(filter, limit, wc_opt, default_wc, reply) ==
    LET wc == unwrap_or(wc_opt, default_wc)
        evs == <<EvDispatch(DeleteCmd(filter, limit, wc))>>
        result == command(reply)
    IN IF ~result.ok THEN [ret |-> result, events |-> evs]
       ELSE LET exception == write_exception(validate_write_result(result.val, wc))
            IN IF ~exception.ok THEN [ret |-> exception, events |-> evs]
               ELSE [ret |-> Ok(DeleteResult_new(result.val, exception.val)),
                     events |-> evs]

delete_one(filter, wc_opt, default_wc, reply) ==
    delete(filter, 1, wc_opt, default_wc, reply)

delete_many(filter, wc_opt, default_wc, reply) ==
    delete(filter, 0, wc_opt, default_wc, reply)

--------------------------------------------------------------------------
\* Collection::validate_replace, validate_update

RECURSIVE validate_replace_from(_, _)
validate_replace_from(ks, i) ==
    IF i > Len(ks) THEN Ok(<<>>)
    ELSE IF starts_with(ks[i], "$") THEN Err(ArgumentError)
    ELSE validate_replace_from(ks, i + 1)

validate_replace(replacement) == validate_replace_from(keys(replacement), 1)

RECURSIVE validate_update_from(_, _)
validate_update_from(ks, i) ==
    IF i > Len(ks) THEN Ok(<<>>)
    ELSE IF ~starts_with(ks[i], "$") THEN Err(ArgumentError)
    ELSE validate_update_from(ks, i + 1)

\* A validator that looks at the first key only.
validate_update_mutant(update) ==
    IF Len(update) > 0 /\ ~starts_with(keys(update)[1], "$")
    THEN Err(ArgumentError) ELSE Ok(<<>>)

validate_update(update) == validate_update_from(keys(update), 1)

--------------------------------------------------------------------------
\* Collection::update, replace_one, update_one, update_many

UpdateSpec(filter, update, upsert, multi) ==
    IF multi
    THEN [q |-> filter, u |-> update, upsert |-> upsert, multi |-> multi]
    ELSE [q |-> filter, u |-> update, upsert |-> upsert]

UpdateCmd(filter, update, upsert, multi, wc) ==
    [verb |-> "update", updates |-> <<UpdateSpec(filter, update, upsert, multi)>>,
     writeConcern |-> wc]

update(filter, upd, upsert, multi, wc_opt, default_wc, reply) ==
    LET wc == unwrap_or(wc_opt, default_wc)
        evs == <<EvDispatch(UpdateCmd(filter, upd, upsert, multi, wc))>>
        result == command(reply)
    IN IF ~result.ok THEN [ret |-> result, events |-> evs]
       ELSE LET exception == write_exception(validate_write_result(result.val, wc))
            IN IF ~exception.ok THEN [ret |-> exception, events |-> evs]
               ELSE [ret |-> Ok(UpdateResult_new(result.val, exception.val)),
                     events |-> evs]

\* try!(validation) followed by the call it guards: the events of the
\* validation come first, and a failed validation returns at once.
validated_mutant(validation, rest) ==
    [ret |-> IF validation.ok THEN rest.ret ELSE validation,
     events |-> <<EvValidate(validation.ok)>> \o rest.events]

validated(validation, rest) ==
    IF ~validation.ok
    THEN [ret |-> validation, events |-> <<EvValidate(FALSE)>>]
    ELSE [ret |-> rest.ret, events |-> <<EvValidate(TRUE)>> \o rest.events]

replace_one(filter, replacement, upsert, wc_opt, default_wc, reply) ==
    validated(validate_replace(replacement),
              update(filter, replacement, upsert, FALSE, wc_opt, default_wc, reply))

update_one(filter, upd, upsert, wc_opt, default_wc, reply) ==
    validated(validate_update(upd),
              update(filter, upd, upsert, FALSE, wc_opt, default_wc, reply))

update_many(filter, upd, upsert, wc_opt, default_wc, reply) ==
    validated(validate_update(upd),
              update(filter, upd, upsert, TRUE, wc_opt, default_wc, reply))

--------------------------------------------------------------------------
\* Collection::find_and_modify and the find_one_and_* family

FindOneAndUpdateOptions_new ==
    [return_after |-> FALSE, upsert |-> FALSE, write_concern |-> None]

FindAndModifyCmd(cmd, filter, wc) ==
    [verb |-> "findAndModify", query |-> filter, writeConcern |-> wc, rest |-> cmd]

find_and_modify(cmd, filter, wc_opt, default_wc, reply) ==
    LET wc == unwrap_or(wc_opt, default_wc)
        evs == <<EvDispatch(FindAndModifyCmd(cmd, filter, wc))>>
        res == command(reply)
    IN IF ~res.ok THEN [ret |-> res, events |-> evs]
       ELSE LET v == validate_write_result(res.val, wc)
            IN IF ~v.ok THEN [ret |-> v, events |-> evs]
               ELSE [ret |-> Ok(res.val.value), events |-> evs]

find_one_and_replace_or_update(filter, upd, after, upsert, wc_opt, default_wc, reply) ==
    LET c1 == <<[k |-> "update", v |-> upd]>>
        c2 == IF after THEN Append(c1, [k |-> "new", v |-> TRUE]) ELSE c1
        c3 == IF upsert THEN Append(c2, [k |-> "upsert", v |-> TRUE]) ELSE c2
    IN find_and_modify(c3, filter, wc_opt, default_wc, reply)

find_one_and_delete(filter, options, default_wc, reply) ==
    LET opts == unwrap_or(options, FindOneAndUpdateOptions_new)
    IN find_and_modify(<<[k |-> "remove", v |-> TRUE]>>, filter, opts.write_concern,
                       default_wc, reply)

find_one_and_replace(filter, replacement, options, default_wc, reply) ==
    LET opts == unwrap_or(options, FindOneAndUpdateOptions_new)
    IN validated(validate_replace(replacement),
                 find_one_and_replace_or_update(filter, replacement, opts.return_after,
                                                opts.upsert, opts.write_concern,
                                                default_wc, reply))

find_one_and_update(filter, upd, options, default_wc, reply) ==
    LET opts == unwrap_or(options, FindOneAndUpdateOptions_new)
    IN validated(validate_update(upd),
                 find_one_and_replace_or_update(filter, upd, opts.return_after,
                                                opts.upsert, opts.write_concern,
                                                default_wc, reply))

--------------------------------------------------------------------------
\* Write models and batches (client::coll::options, client::coll::batch)

InsertOneModel(document) == [model |-> "InsertOne", document |-> document]
DeleteOneModel(filter) == [model |-> "DeleteOne", filter |-> filter]
DeleteManyModel(filter) == [model |-> "DeleteMany", filter |-> filter]
ReplaceOneModel(filter, replacement, upsert) ==
    [model |-> "ReplaceOne", filter |-> filter, replacement |-> replacement,
     upsert |-> upsert]
UpdateOneModel(filter, upd, upsert) ==
    [model |-> "UpdateOne", filter |-> filter, update |-> upd, upsert |-> upsert]
UpdateManyModel(filter, upd, upsert) ==
    [model |-> "UpdateMany", filter |-> filter, update |-> upd, upsert |-> upsert]

Batch_Insert(documents) == [batch |-> "Insert", documents |-> documents]

\* The loop of get_unordered_batches and get_ordered_batches: the documents
\* of the InsertOne models, in request order; every other model is skipped.
RECURSIVE collect_inserts(_, _, _)
collect_inserts(requests, i, inserts) ==
    IF i > Len(requests) THEN inserts
    ELSE IF requests[i].model = "InsertOne"
    THEN collect_inserts(requests, i + 1, Append(inserts, requests[i].document))
    ELSE collect_inserts(requests, i + 1, inserts)

get_unordered_batches(requests) == <<Batch_Insert(collect_inserts(requests, 1, <<>>))>>

get_ordered_batches(requests) == <<Batch_Insert(collect_inserts(requests, 1, <<>>))>>

--------------------------------------------------------------------------
\* BulkWriteResult and the exception accumulator (client::coll::results,
\* client::coll::error)

BulkWriteResult_new ==
    [inserted_count |-> 0, inserted_ids |-> map_new, deleted_count |-> 0,
     matched_count |-> 0, modified_count |-> 0, upserted_count |-> 0,
     bulk_write_exception |-> None]

add_unproccessed_model(exception, model) ==
    [exception EXCEPT !.unprocessed_requests = Append(@, model)]

add_unproccessed_models(exception, models) ==
    [exception EXCEPT !.unprocessed_requests = @ \o models]

\* One insert_one result merged into the aggregate: the id under the batch's
\* index, the write error appended, the model processed or, when its write
\* failed, unprocessed.
process_insert_one_result(result, exception, insert_result, i, model) ==
    LET exc == insert_result.write_exception
        failed == is_some(exc) /\ is_some(unwrap(exc).write_error)
        e1 == IF failed
              THEN [exception EXCEPT
                       !.write_errors = Append(@, unwrap(unwrap(exc).write_error)),
                       !.unprocessed_requests = Append(@, model)]
              ELSE [exception EXCEPT !.processed_requests = Append(@, model)]
        e2 == IF is_some(exc) /\ is_some(unwrap(exc).write_concern_error)
              THEN [e1 EXCEPT !.write_concern_error = unwrap(exc).write_concern_error]
              ELSE e1
        r1 == IF is_some(insert_result.inserted_id)
              THEN [result EXCEPT
                       !.inserted_count = @ + 1,
                       !.inserted_ids = map_insert(@, i, unwrap(insert_result.inserted_id))]
              ELSE result
    IN [result |-> r1, exception |-> e2]

\* One insert_many result merged into the aggregate.  The aggregator is not
\* told whether the batch was ordered (line 310): the models whose index has
\* a write error are unprocessed, every other model is processed.
process_insert_many_result(result, exception, insert_result, models) ==
    LET exc == insert_result.bulk_write_exception
        errs == IF is_some(exc) THEN unwrap(exc).write_errors ELSE <<>>
        failing == {errs[j].index : j \in 1..Len(errs)}
        unprocessed(j) == (j - 1) \in failing
        idxs == 1..Len(models)
        e1 == [exception EXCEPT
                  !.write_errors = @ \o errs,
                  !.processed_requests =
                      @ \o SelectSeq([j \in idxs |-> [m |-> models[j], j |-> j]],
                                     LAMBDA x : ~unprocessed(x.j)),
                  !.unprocessed_requests =
                      @ \o SelectSeq([j \in idxs |-> [m |-> models[j], j |-> j]],
                                     LAMBDA x : unprocessed(x.j))]
        strip(ms) == [j \in 1..Len(ms) |-> ms[j].m]
        e2 == [e1 EXCEPT !.processed_requests = strip(e1.processed_requests),
                         !.unprocessed_requests = strip(e1.unprocessed_requests)]
        e3 == IF is_some(exc) /\ is_some(unwrap(exc).write_concern_error)
              THEN [e2 EXCEPT !.write_concern_error = unwrap(exc).write_concern_error]
              ELSE e2
        ids == unwrap_or(insert_result.inserted_ids, map_new)
        r1 == [result EXCEPT
                  !.inserted_count = @ + Cardinality(DOMAIN ids),
                  !.inserted_ids = [x \in (DOMAIN @) \cup (DOMAIN ids) |->
                                        IF x \in DOMAIN ids THEN ids[x] ELSE @[x]]]
    IN [result |-> r1, exception |-> e3]

--------------------------------------------------------------------------
\* Collection::execute_*_batch and bulk_write

\* Each returns the aggregate result, the exception accumulator, the events
\* of the dispatch and the generator's counter.
BatchOutcome(p, r) ==
    [result |-> p.result, exception |-> p.exception, events |-> r.events, oid |-> r.oid]

\* The match on insert_one's result, lines 291-298.
insert_one_batch_match(r, i, model, result, exception) ==
    IF r.ret.ok
    THEN BatchOutcome(process_insert_one_result(result, exception, r.ret.val, i, model), r)
    ELSE BatchOutcome([result |-> result,
                       exception |-> add_unproccessed_model(exception, model)], r)

execute_insert_one_batch(document, i, result, exception, default_wc, oid, oid_fail, reply) ==
    insert_one_batch_match(insert_one(document, None, default_wc, oid, oid_fail, reply),
                           i, InsertOneModel(document), result, exception)

\* The match on insert_many's result, lines 308-313.
insert_many_batch_match(r, models, result, exception) ==
    IF r.ret.ok
    THEN BatchOutcome(process_insert_many_result(result, exception, r.ret.val, models), r)
    ELSE BatchOutcome([result |-> result,
                       exception |-> add_unproccessed_models(exception, models)], r)

execute_insert_many_batch(documents, ordered, result, exception, default_wc, oid, oid_fail, reply) ==
    insert_many_batch_match(
        insert_many(documents, ordered, None, default_wc, oid, oid_fail, reply),
        [j \in 1..Len(documents) |-> InsertOneModel(documents[j])],
        result, exception)

execute_batch(batch, ordered, i, result, exception, default_wc, oid, oid_fail, reply) ==
    IF Len(batch.documents) = 1
    THEN execute_insert_one_batch(batch.documents[Len(batch.documents)], i, result,
                                  exception, default_wc, oid, oid_fail, reply)
    ELSE execute_insert_many_batch(batch.documents, ordered, result, exception,
                                   default_wc, oid, oid_fail, reply)

\* One turn of the loop over the batches: acc holds the aggregate result, the
\* exception accumulator, the events so far and the generator's counter.
execute_next_batch(acc, batch, ordered, i, default_wc, oid_fail, reply) ==
    [execute_batch(batch, ordered, i, acc.result, acc.exception, default_wc, acc.oid,
                   oid_fail, reply)
         EXCEPT !.events = acc.events \o @]

\* The loop over the batches; replies[i] is the server's reply to batch i.
RECURSIVE execute_batches(_, _, _, _, _, _, _)
execute_batches(batches, ordered, i, acc, default_wc, oid_fail, replies) ==
    IF i >= Len(batches) THEN acc
    ELSE execute_batches(
             batches, ordered, i + 1,
             execute_next_batch(acc, batches[i + 1], ordered, i, default_wc, oid_fail,
                                replies[i + 1]),
             default_wc, oid_fail, replies)

\* The test of lines 347-349.
attach_exception(result, exception) ==
    IF Len(exception.unprocessed_requests) = 0
    THEN [result EXCEPT !.bulk_write_exception = Some(exception)]
    ELSE result

bulk_write_result(batches, x) ==
    [ret |-> attach_exception(x.result, x.exception), batches |-> batches,
     exception |-> x.exception, events |-> x.events, oid |-> x.oid]

bulk_write_batches(batches, ordered, default_wc, oid, oid_fail, replies) ==
    bulk_write_result(
        batches,
        execute_batches(batches, ordered, 0,
                        [result |-> BulkWriteResult_new,
                         exception |-> BulkWriteException_new(<<>>, <<>>, <<>>, None),
                         events |-> <<>>, oid |-> oid],
                        default_wc, oid_fail, replies))

bulk_write(requests, ordered, default_wc, oid, oid_fail, replies) ==
    bulk_write_batches(IF ordered THEN get_ordered_batches(requests)
                       ELSE get_unordered_batches(requests),
                       ordered, default_wc, oid, oid_fail, replies)

--------------------------------------------------------------------------
\* Inputs

D_a == <<[k |-> K_a, v |-> I32(1)]>>
D_id == <<[k |-> K_id, v |-> I32(7)]>>
D_a_id == <<[k |-> K_a, v |-> I32(1)], [k |-> K_id, v |-> I32(8)]>>

InsertDocs == {D_a, D_id, D_a_id}

SeqsUpTo(S, n) == UNION {[1..m -> S] : m \in 0..n}

needs_oid(docs) == Cardinality({i \in 1..Len(docs) : ~is_some(doc_get(docs[i], K_id))})

F_x == <<[k |-> <<"x">>, v |-> I32(42)]>>

\* Replacement and update documents: up to two distinct keys, with and
\* without a leading $.
UpdateKeys == {K_a, K_set, K_inc, K_a_dollar, K_empty}
Entry(key) == [k |-> key, v |-> I32(1)]
UpdateDocs ==
    {<<>>} \cup {<<Entry(k1)>> : k1 \in UpdateKeys}
           \cup {<<Entry(p[1]), Entry(p[2])>> :
                    p \in {q \in UpdateKeys \X UpdateKeys : q[1] # q[2]}}

\* Replies to a command that carries one write.
WriteReplies ==
    {IoReply} \cup
    {DocReply(n, errs, wce) :
        n \in 0..1, errs \in {<<>>, <<WErr(0)>>}, wce \in {None, Some(WCErr)}}

FindAndModifyReplies ==
    {IoReply} \cup
    {[DocReply(0, errs, wce) EXCEPT !.value = v] :
        errs \in {<<>>, <<WErr(0)>>}, wce \in {None, Some(WCErr)}, v \in {None, Some(D_a)}}

FindOptions ==
    {None,
     Some([return_after |-> TRUE, upsert |-> TRUE, write_concern |-> Some(WC(1))]),
     Some([return_after |-> FALSE, upsert |-> FALSE, write_concern |-> Some(WC(0))])}

U_set == <<Entry(K_set)>>

WriteModels ==
    {InsertOneModel(D_a), InsertOneModel(D_id), DeleteOneModel(F_x), DeleteManyModel(F_x),
     ReplaceOneModel(F_x, D_a, FALSE), UpdateOneModel(F_x, U_set, FALSE),
     UpdateManyModel(F_x, U_set, TRUE)}

Inserts(requests) == collect_inserts(requests, 1, <<>>)

\* ObjectId::new() is called, and can fail, only for a document without _id.
OidOutcomes(docs) == IF needs_oid(docs) > 0 THEN BOOLEAN ELSE {FALSE}


--------------------------------------------------------------------------
\* Buffered connection (src/src/buf_connection.rs)

\* Wire bytes.
Bytes == {0, 1}

\* TcpStream: the bytes the peer has sent and the socket has not yet handed
\* out, the bytes written to the peer, and the read timeout set on the socket.
TcpStream(inq) == [kind |-> "tcp", inq |-> inq, wire |-> <<>>, timeout |-> None]

\* The record layer of TlsStream: a plaintext byte and its wire form differ.
seal(b) == 1 - b
open(b) == 1 - b

\* TlsStream<TcpStream>: the socket the session runs over.
TlsStream(tcp) == [kind |-> "tls", tcp |-> tcp]

\* The socket under a transport: TlsStream::get_ref, or the TcpStream itself.
socket_of(inner) == IF inner.kind = "tls" THEN inner.tcp ELSE inner

with_socket(inner, tcp) == IF inner.kind = "tls" THEN [inner EXCEPT !.tcp = tcp] ELSE tcp

\* Read::read of the transport for a buffer of k bytes: at most k of the
\* bytes that have arrived, opened when the transport is a TLS session.
inner_read(inner, k) ==
    LET tcp == socket_of(inner)
        n == IF k < Len(tcp.inq) THEN k ELSE Len(tcp.inq)
        raw == SubSeq(tcp.inq, 1, n)
    IN [data |-> IF inner.kind = "tls" THEN [j \in 1..n |-> open(raw[j])] ELSE raw,
        inner |-> with_socket(inner, [tcp EXCEPT !.inq = SubSeq(tcp.inq, n + 1, Len(tcp.inq))])]

\* Write::write of the transport: the bytes go to the peer, sealed when the
\* transport is a TLS session.
inner_write(inner, data) ==
    LET tcp == socket_of(inner)
        raw == IF inner.kind = "tls" THEN [j \in 1..Len(data) |-> seal(data[j])] ELSE data
    IN with_socket(inner, [tcp EXCEPT !.wire = tcp.wire \o raw])

\* BufStream<S>: the transport and the bytes written but not yet flushed.
BufStream(inner) == [inner |-> inner, wbuf |-> <<>>]

\* The outcome of a stream operation: the stream afterwards and the io::Result.
StreamOutcome(stream, res) == [stream |-> stream, ret |-> res]

\* BufStream::read: Ok(n) with the n bytes placed in the caller's buffer, or
\* the transport's error.
stream_read(stream, k, fail) ==
    IF fail THEN StreamOutcome(stream, Err(IoError))
    ELSE StreamOutcome([stream EXCEPT !.inner = inner_read(stream.inner, k).inner],
                       Ok([n |-> Len(inner_read(stream.inner, k).data),
                           data |-> inner_read(stream.inner, k).data]))

\* BufStream::read_to_end: everything that arrives before the peer closes.
stream_read_to_end(stream, fail) ==
    stream_read(stream, Len(socket_of(stream.inner).inq), fail)

\* BufStream::write: the bytes are appended to the write buffer.
stream_write(stream, data, fail) ==
    IF fail THEN StreamOutcome(stream, Err(IoError))
    ELSE StreamOutcome([stream EXCEPT !.wbuf = stream.wbuf \o data],
                       Ok([n |-> Len(data), data |-> <<>>]))

\* BufStream::flush: the write buffer goes to the transport.
stream_flush(stream, fail) ==
    IF fail THEN StreamOutcome(stream, Err(IoError))
    ELSE StreamOutcome([inner |-> inner_write(stream.inner, stream.wbuf), wbuf |-> <<>>],
                       Ok([n |-> 0, data |-> <<>>]))

\* BufStream::get_ref followed, for TLS, by TlsStream::get_ref.
stream_get_ref(stream) == socket_of(stream.inner)

\* What the caller does through the &mut TcpStream of get_mut: set the
\* socket's read timeout.
stream_set_timeout(stream, t) ==
    [stream EXCEPT !.inner = with_socket(stream.inner,
                                         [socket_of(stream.inner) EXCEPT !.timeout = t])]

PanicTls == "Using SSL, expected TLS stream."
PanicTcp == "Not using SSL, expected TCP stream."

\* The outcome of a BufConnection method: the struct afterwards, the value
\* returned, and the panic message when the method panicked.
ConnOutcome(self, res, msg) == [self |-> self, ret |-> res, panic |-> msg]

Panicked(self, msg) == ConnOutcome(self, Err([kind |-> "none"]), Some(msg))

on_tls(self, o) == ConnOutcome([self EXCEPT !.tls_stream = Some(o.stream)], o.ret, None)
on_tcp(self, o) == ConnOutcome([self EXCEPT !.tcp_stream = Some(o.stream)], o.ret, None)

new_tcp(stream) == [tls |-> FALSE, tcp_stream |-> Some(stream), tls_stream |-> None]

new_tls_mutant(stream) == [tls |-> FALSE, tcp_stream |-> None, tls_stream |-> Some(stream)]

new_tls(stream) == [tls |-> TRUE, tcp_stream |-> None, tls_stream |-> Some(stream)]

read(self, k, fail) ==
    IF self.tls
    THEN IF is_some(self.tls_stream)
         THEN on_tls(self, stream_read(unwrap(self.tls_stream), k, fail))
         ELSE Panicked(self, PanicTls)
    ELSE IF is_some(self.tcp_stream)
         THEN on_tcp(self, stream_read(unwrap(self.tcp_stream), k, fail))
         ELSE Panicked(self, PanicTcp)

read_to_end(self, fail) ==
    IF self.tls
    THEN IF is_some(self.tls_stream)
         THEN on_tls(self, stream_read_to_end(unwrap(self.tls_stream), fail))
         ELSE Panicked(self, PanicTls)
    ELSE IF is_some(self.tcp_stream)
         THEN on_tcp(self, stream_read_to_end(unwrap(self.tcp_stream), fail))
         ELSE Panicked(self, PanicTcp)

write(self, data, fail) ==
    IF self.tls
    THEN IF is_some(self.tls_stream)
         THEN on_tls(self, stream_write(unwrap(self.tls_stream), data, fail))
         ELSE Panicked(self, PanicTls)
    ELSE IF is_some(self.tcp_stream)
         THEN on_tcp(self, stream_write(unwrap(self.tcp_stream), data, fail))
         ELSE Panicked(self, PanicTcp)

flush(self, fail) ==
    IF self.tls
    THEN IF is_some(self.tls_stream)
         THEN on_tls(self, stream_flush(unwrap(self.tls_stream), fail))
         ELSE Panicked(self, PanicTls)
    ELSE IF is_some(self.tcp_stream)
         THEN on_tcp(self, stream_flush(unwrap(self.tcp_stream), fail))
         ELSE Panicked(self, PanicTcp)

get_ref(self) ==
    IF self.tls
    THEN IF is_some(self.tls_stream)
         THEN ConnOutcome(self, Ok(stream_get_ref(unwrap(self.tls_stream))), None)
         ELSE Panicked(self, PanicTls)
    ELSE IF is_some(self.tcp_stream)
         THEN ConnOutcome(self, Ok(stream_get_ref(unwrap(self.tcp_stream))), None)
         ELSE Panicked(self, PanicTcp)

\* get_mut hands out the socket; t is the read timeout the caller sets
\* through the returned reference.
get_mut(self, t) ==
    IF self.tls
    THEN IF is_some(self.tls_stream)
         THEN on_tls(self, StreamOutcome(stream_set_timeout(unwrap(self.tls_stream), t),
                 Ok(stream_get_ref(stream_set_timeout(unwrap(self.tls_stream), t)))))
         ELSE Panicked(self, PanicTls)
    ELSE IF is_some(self.tcp_stream)
         THEN on_tcp(self, StreamOutcome(stream_set_timeout(unwrap(self.tcp_stream), t),
                 Ok(stream_get_ref(stream_set_timeout(unwrap(self.tcp_stream), t)))))
         ELSE Panicked(self, PanicTcp)

\* Bytes the peer sends over the life of a connection.
IncomingBytes == SeqsUpTo(Bytes, MaxIn)

\* Read timeouts a caller sets.
Timeouts == {None, Some(1)}

--------------------------------------------------------------------------
\* Actions

Init ==
    /\ write_concern \in WriteConcerns
    /\ oid_counter = 0
    /\ call = [op |-> "none"]
    /\ events = <<>>
    /\ ret = Err([kind |-> "none"])
    /\ conn = new_tcp(BufStream(TcpStream(<<>>)))
    /\ panic = None

\* No call is in progress and the last result has been taken by the caller.
Idle == call.op = "none"

\* The caller takes the returned value; the collection is ready for the next call.
Return ==
    /\ ~Idle
    /\ call' = [op |-> "none"]
    /\ events' = <<>>
    /\ ret' = Err([kind |-> "none"])
    /\ UNCHANGED <<write_concern, oid_counter, conn, panic>>

InsertOne ==
    /\ Idle
    /\ \E doc \in InsertDocs, wc_opt \in OptWriteConcerns, oid_fail \in BOOLEAN,
       reply \in InsertReplies(1, TRUE) :
        /\ oid_counter + needs_oid(<<doc>>) <= MaxOid
        /\ LET r == insert_one(doc, wc_opt, write_concern, oid_counter, oid_fail, reply)
           IN /\ call' = [op |-> "insert_one", docs |-> <<doc>>, ordered |-> TRUE,
                          wc |-> unwrap_or(wc_opt, write_concern), reply |-> reply]
              /\ events' = r.events
              /\ ret' = r.ret
              /\ oid_counter' = r.oid
        /\ UNCHANGED <<write_concern, conn, panic>>

InsertMany ==
    /\ Idle
    /\ \E docs \in SeqsUpTo(InsertDocs, MaxDocs), ordered \in BOOLEAN,
       wc_opt \in OptWriteConcerns, oid_fail \in BOOLEAN :
        \E reply \in InsertReplies(Len(docs), ordered) :
            /\ oid_counter + needs_oid(docs) <= MaxOid
            /\ LET r == insert_many(docs, ordered, wc_opt, write_concern, oid_counter,
                                    oid_fail, reply)
               IN /\ call' = [op |-> "insert_many", docs |-> docs, ordered |-> ordered,
                              wc |-> unwrap_or(wc_opt, write_concern), reply |-> reply]
                  /\ events' = r.events
                  /\ ret' = r.ret
                  /\ oid_counter' = r.oid
            /\ UNCHANGED <<write_concern, conn, panic>>

\* The record of a call that does not touch the generator.
Returned(c, r) ==
    /\ call' = c
    /\ events' = r.events
    /\ ret' = r.ret
    /\ UNCHANGED <<write_concern, oid_counter, conn, panic>>

DeleteOne ==
    /\ Idle
    /\ \E wc_opt \in OptWriteConcerns, reply \in WriteReplies :
        /\ Returned([op |-> "delete_one", wc |-> unwrap_or(wc_opt, write_concern),
                     reply |-> reply],
                    delete_one(F_x, wc_opt, write_concern, reply))

DeleteMany ==
    /\ Idle
    /\ \E wc_opt \in OptWriteConcerns, reply \in WriteReplies :
        /\ Returned([op |-> "delete_many", wc |-> unwrap_or(wc_opt, write_concern),
                     reply |-> reply],
                    delete_many(F_x, wc_opt, write_concern, reply))

ReplaceOne ==
    /\ Idle
    /\ \E d \in UpdateDocs, upsert \in BOOLEAN, wc_opt \in OptWriteConcerns,
       reply \in WriteReplies :
        /\ Returned([op |-> "replace_one", doc |-> d,
                     wc |-> unwrap_or(wc_opt, write_concern), reply |-> reply],
                    replace_one(F_x, d, upsert, wc_opt, write_concern, reply))

UpdateOne ==
    /\ Idle
    /\ \E d \in UpdateDocs, upsert \in BOOLEAN, wc_opt \in OptWriteConcerns,
       reply \in WriteReplies :
        /\ Returned([op |-> "update_one", doc |-> d,
                     wc |-> unwrap_or(wc_opt, write_concern), reply |-> reply],
                    update_one(F_x, d, upsert, wc_opt, write_concern, reply))

UpdateMany ==
    /\ Idle
    /\ \E d \in UpdateDocs, upsert \in BOOLEAN, wc_opt \in OptWriteConcerns,
       reply \in WriteReplies :
        /\ Returned([op |-> "update_many", doc |-> d,
                     wc |-> unwrap_or(wc_opt, write_concern), reply |-> reply],
                    update_many(F_x, d, upsert, wc_opt, write_concern, reply))

FindOneAndDelete ==
    /\ Idle
    /\ \E options \in FindOptions, reply \in FindAndModifyReplies :
        /\ Returned([op |-> "find_one_and_delete", reply |-> reply],
                    find_one_and_delete(F_x, options, write_concern, reply))

FindOneAndReplace ==
    /\ Idle
    /\ \E d \in UpdateDocs, options \in FindOptions, reply \in FindAndModifyReplies :
        /\ Returned([op |-> "find_one_and_replace", doc |-> d, reply |-> reply],
                    find_one_and_replace(F_x, d, options, write_concern, reply))

FindOneAndUpdate ==
    /\ Idle
    /\ \E d \in UpdateDocs, options \in FindOptions, reply \in FindAndModifyReplies :
        /\ Returned([op |-> "find_one_and_update", doc |-> d, reply |-> reply],
                    find_one_and_update(F_x, d, options, write_concern, reply))

Next ==
    \/ InsertOne \/ InsertMany
    \/ DeleteOne \/ DeleteMany
    \/ ReplaceOne \/ UpdateOne \/ UpdateMany
    \/ FindOneAndDelete \/ FindOneAndReplace \/ FindOneAndUpdate
    \/ Return

Spec == Init /\ [][Next]_vars

BulkReturned(c, r) ==
    /\ call' = [c EXCEPT !.batches = r.batches, !.exception = r.exception]
    /\ events' = r.events
    /\ ret' = r.ret
    /\ oid_counter' = r.oid
    /\ UNCHANGED <<write_concern, conn, panic>>

BulkWrite ==
    /\ Idle
    /\ \E requests \in SeqsUpTo(WriteModels, MaxRequests), ordered \in BOOLEAN :
        \E reply \in InsertReplies(Len(Inserts(requests)), ordered),
           oid_fail \in OidOutcomes(Inserts(requests)) :
            /\ oid_counter + needs_oid(Inserts(requests)) <= MaxOid
            /\ BulkReturned([op |-> "bulk_write", requests |-> requests,
                             ordered |-> ordered, wc |-> write_concern,
                             reply |-> reply, batches |-> <<>>, exception |-> <<>>],
                            bulk_write(requests, ordered, write_concern, oid_counter,
                                       oid_fail, <<reply>>))

NextBulk == BulkWrite \/ Return

SpecBulk == Init /\ [][NextBulk]_vars

\* A connection as new_tcp or new_tls built it, over a stream on which the
\* peer will send some bytes; the collection is idle throughout.
InitConn ==
    /\ write_concern = WC(1)
    /\ oid_counter = 0
    /\ call = [op |-> "none"]
    /\ events = <<>>
    /\ ret = Err([kind |-> "none"])
    /\ conn \in {new_tcp(BufStream(TcpStream(inq))) : inq \in IncomingBytes} \cup
                {new_tls(BufStream(TlsStream(TcpStream(inq)))) : inq \in IncomingBytes}
    /\ panic = None

\* Unflushed and sent bytes of the streams the connection holds.
StreamsOf(self) == {unwrap(o) : o \in {q \in {self.tls_stream, self.tcp_stream} : is_some(q)}}
Buffered(self) == IF StreamsOf(self) = {} THEN 0 ELSE Len((CHOOSE x \in StreamsOf(self) : TRUE).wbuf)
Sent(self) == IF StreamsOf(self) = {} THEN 0 ELSE Len(stream_get_ref(CHOOSE x \in StreamsOf(self) : TRUE).wire)

\* The record of a method call on the connection.
ConnReturned(c, o) ==
    /\ call' = c
    /\ conn' = o.self
    /\ ret' = o.ret
    /\ panic' = o.panic
    /\ UNCHANGED <<write_concern, oid_counter, events>>

Read ==
    /\ panic = None
    /\ \E k \in 1..MaxIo, fail \in BOOLEAN :
        ConnReturned([op |-> "read", k |-> k], read(conn, k, fail))

ReadToEnd ==
    /\ panic = None
    /\ \E fail \in BOOLEAN :
        ConnReturned([op |-> "read_to_end"], read_to_end(conn, fail))

Write ==
    /\ panic = None
    /\ \E data \in SeqsUpTo(Bytes, MaxIo), fail \in BOOLEAN :
        /\ Buffered(conn) + Len(data) <= MaxBuf
        /\ ConnReturned([op |-> "write", data |-> data], write(conn, data, fail))

Flush ==
    /\ panic = None
    /\ Sent(conn) + Buffered(conn) <= MaxWire
    /\ \E fail \in BOOLEAN :
        ConnReturned([op |-> "flush"], flush(conn, fail))

GetRef ==
    /\ panic = None
    /\ ConnReturned([op |-> "get_ref"], get_ref(conn))

GetMut ==
    /\ panic = None
    /\ \E t \in Timeouts :
        ConnReturned([op |-> "get_mut", t |-> t], get_mut(conn, t))

NextConn ==
    \/ Read
    \/ ReadToEnd
    \/ Write
    \/ Flush
    \/ GetRef
    \/ GetMut

SpecConn == InitConn /\ [][NextConn]_vars

--------------------------------------------------------------------------
\* Properties of insert_one and insert_many

InsertManyOk == call.op = "insert_many" /\ ret.ok

InsertedIds == DOMAIN unwrap(ret.val.inserted_ids)

ReturnedWriteErrors ==
    IF is_some(ret.val.bulk_write_exception)
    THEN unwrap(ret.val.bulk_write_exception).write_errors
    ELSE <<>>

\* The write errors of the reply as the validator turns them into a
\* BulkWriteException for the call's write concern.
ValidatedErrorIndexes ==
    LET v == validate_bulk_write_result(call.reply, call.wc)
    IN IF v.ok THEN {}
       ELSE {v.err.exc.write_errors[j].index : j \in 1..Len(v.err.exc.write_errors)}

\* C1: after an insert_many that returns Ok, inserted_ids has a key i exactly
\* for the request indexes i for which the validated reply holds no write
\* error with that index, and has no key outside 0..len(docs)-1.
C1_InsertedIdsIffNoWriteError ==
    InsertManyOk =>
        /\ InsertedIds \subseteq 0..(Len(call.docs) - 1)
        /\ \A i \in 0..(Len(call.docs) - 1) :
               (i \in InsertedIds) <=> (i \notin ValidatedErrorIndexes)

C1_Witness ==
    /\ InsertManyOk
    /\ Len(call.docs) = 3
    /\ ValidatedErrorIndexes = {0, 2}
    /\ InsertedIds = {1}

\* C2: after an insert_many that returns Ok, ordered or not, the number of
\* inserted ids plus the number of write errors in the attached exception
\* (0 without an exception) is the number of documents.
C2_IdsPlusErrorsIsDocs ==
    InsertManyOk =>
        Cardinality(InsertedIds) + Len(ReturnedWriteErrors) = Len(call.docs)

C2_Witness ==
    /\ InsertManyOk
    /\ ~call.ordered
    /\ Len(call.docs) = 3
    /\ Len(ReturnedWriteErrors) = 2
    /\ Cardinality(InsertedIds) = 1

\* C3: an ordered insert_many whose reply reports a single write error at
\* index k returns inserted_ids with exactly the indexes below k, and
\* write_errors holding exactly that error.
C3_OrderedKeepsOnlyIndexesBelowError ==
    (InsertManyOk /\ call.ordered /\ Len(ReturnedWriteErrors) = 1) =>
        /\ InsertedIds = 0..(ReturnedWriteErrors[1].index - 1)
        /\ ReturnedWriteErrors = call.reply.writeErrors

InsertOneOk == call.op = "insert_one" /\ ret.ok

\* The single document of the insert command the call dispatched.
DispatchedDoc == unwrap(dispatched(events)[1].cmd).documents[1]

InsertOneDispatchedOne ==
    /\ Len(dispatched(events)) = 1
    /\ Len(unwrap(dispatched(events)[1].cmd).documents) = 1

InsertOneWriteError ==
    /\ is_some(ret.val.write_exception)
    /\ is_some(unwrap(ret.val.write_exception).write_error)

\* C4 as stated: after an insert_one that returns Ok, the dispatched
\* document carries an _id (the caller's, when the document had one) and
\* that _id is result.inserted_id.
C4_DispatchedIdIsInsertedId ==
    InsertOneOk =>
        /\ InsertOneDispatchedOne
        /\ is_some(doc_get(DispatchedDoc, K_id))
        /\ ret.val.inserted_id = doc_get(DispatchedDoc, K_id)

\* C4 amended: after an insert_one that returns Ok, the dispatched document
\* carries an _id (the caller's value, unchanged, when the document had one);
\* result.inserted_id is that _id unless the attached exception holds a write
\* error, and is absent when it does.
C4_DispatchedIdIsInsertedIdUnlessWriteError ==
    InsertOneOk =>
        /\ InsertOneDispatchedOne
        /\ is_some(doc_get(DispatchedDoc, K_id))
        /\ is_some(doc_get(call.docs[1], K_id)) =>
               doc_get(DispatchedDoc, K_id) = doc_get(call.docs[1], K_id)
        /\ ret.val.inserted_id =
               IF InsertOneWriteError THEN None ELSE doc_get(DispatchedDoc, K_id)

C4_Witness ==
    /\ InsertOneOk
    /\ ~is_some(doc_get(call.docs[1], K_id))
    /\ ~InsertOneWriteError
    /\ is_some(ret.val.inserted_id)
    /\ unwrap(ret.val.inserted_id).t = "oid"
    /\ doc_get(DispatchedDoc, K_id) = ret.val.inserted_id

--------------------------------------------------------------------------
\* Properties of the validated operations

ReplaceOps == {"replace_one", "find_one_and_replace"}
UpdateOps == {"update_one", "update_many", "find_one_and_update"}

KeyHasDollarFirst(key) == key # <<>> /\ Head(key) = "$"

ValidationOk == events[1].ev = "validate_ok"

\* C5: validate_replace(d) is Ok exactly when no top-level key of d starts
\* with $, validate_update(d) is Ok exactly when every top-level key of d
\* starts with $ (the empty document passes both), and a failed validation
\* is an ArgumentError.
C5_ValidationIffDollarRule ==
    /\ call.op \in ReplaceOps =>
           /\ ValidationOk <=>
                  \A i \in 1..Len(call.doc) : ~KeyHasDollarFirst(call.doc[i].k)
           /\ ~ValidationOk => ret = Err(ArgumentError)
    /\ call.op \in UpdateOps =>
           /\ ValidationOk <=>
                  \A i \in 1..Len(call.doc) : KeyHasDollarFirst(call.doc[i].k)
           /\ ~ValidationOk => ret = Err(ArgumentError)

C5_Witness ==
    /\ call.op = "update_one"
    /\ Len(call.doc) = 2
    /\ KeyHasDollarFirst(call.doc[1].k)
    /\ ~KeyHasDollarFirst(call.doc[2].k)
    /\ ret = Err(ArgumentError)

\* C6: in replace_one, update_one, update_many, find_one_and_replace and
\* find_one_and_update the validation is the first event of the call; when
\* it fails the call returns ArgumentError and dispatches nothing, and any
\* dispatch comes after the validation.
C6_ValidationBeforeDispatch ==
    call.op \in (ReplaceOps \cup UpdateOps) =>
        /\ Len(events) >= 1
        /\ events[1].ev \in {"validate_ok", "validate_err"}
        /\ \A i \in 2..Len(events) : events[i].ev = "dispatch"
        /\ events[1].ev = "validate_err" =>
               /\ ret = Err(ArgumentError)
               /\ Len(dispatched(events)) = 0

C6_Witness ==
    /\ call.op = "find_one_and_replace"
    /\ events = <<EvValidate(FALSE)>>
    /\ ret = Err(ArgumentError)

\* The exception field of a returned write result.
ExceptionOf(r) ==
    IF call.op = "insert_many" THEN r.val.bulk_write_exception
    ELSE r.val.write_exception

WriteOps ==
    {"insert_one", "insert_many", "delete_one", "delete_many",
     "replace_one", "update_one", "update_many"}

ServerReportedError ==
    Len(call.reply.writeErrors) > 0 \/ is_some(call.reply.writeConcernError)

\* A command was dispatched with an acknowledged write concern and the
\* server's reply document came back.
AcknowledgedReply ==
    /\ call.op \in WriteOps
    /\ call.wc.w # 0
    /\ Len(dispatched(events)) = 1
    /\ ~call.reply.io

\* C7: for the seven write methods with an acknowledged write concern, the
\* call returns Ok, and the result's exception is present exactly when the
\* reply carries a writeErrors entry or a writeConcernError.
C7_ExceptionIffServerReportedError ==
    AcknowledgedReply =>
        /\ ret.ok
        /\ is_some(ExceptionOf(ret)) <=> ServerReportedError

C7_Witness ==
    /\ AcknowledgedReply
    /\ call.op = "delete_many"
    /\ Len(call.reply.writeErrors) = 0
    /\ is_some(call.reply.writeConcernError)
    /\ ret.ok
    /\ is_some(ret.val.write_exception)

--------------------------------------------------------------------------
\* Properties of bulk_write

BulkWriteDone == call.op = "bulk_write"

\* C8: bulk_write attaches the BulkWriteException to its result exactly when
\* a write error or a write-concern error was accumulated over the batches;
\* without errors the result has no exception.
C8_BulkExceptionIffErrorsAccumulated ==
    BulkWriteDone =>
        (is_some(ret.bulk_write_exception) <=>
            (\/ Len(call.exception.write_errors) > 0
             \/ is_some(call.exception.write_concern_error)))

VerbOf(m) ==
    IF m.model = "InsertOne" THEN "Insert"
    ELSE IF m.model \in {"DeleteOne", "DeleteMany"} THEN "Delete"
    ELSE "Update"

RECURSIVE BatchedCount(_, _)
BatchedCount(batches, i) ==
    IF i > Len(batches) THEN 0
    ELSE Len(batches[i].documents) + BatchedCount(batches, i + 1)

ThreeInsertsOneDelete ==
    /\ Len(call.requests) = 4
    /\ \A i \in 1..3 : call.requests[i].model = "InsertOne"
    /\ call.requests[4].model = "DeleteOne"

\* C9: the batcher covers every write model: each model of the request list
\* is in a batch of its own verb, the batches together hold as many models
\* as the request list, and an unordered bulk_write of 3 inserts and 1 delete
\* makes 2 batches and dispatches both.
C9_BatcherCoversEveryModel ==
    BulkWriteDone =>
        /\ \A i \in 1..Len(call.requests) :
               \E b \in 1..Len(call.batches) :
                   call.batches[b].batch = VerbOf(call.requests[i])
        /\ BatchedCount(call.batches, 1) = Len(call.requests)
        /\ (ThreeInsertsOneDelete /\ ~call.ordered /\ ~call.reply.io) =>
               /\ Len(call.batches) = 2
               /\ Len(dispatched(events)) = 2

RECURSIVE InsertPositions(_, _)
InsertPositions(requests, i) ==
    IF i > Len(requests) THEN <<>>
    ELSE IF requests[i].model = "InsertOne"
    THEN <<i>> \o InsertPositions(requests, i + 1)
    ELSE InsertPositions(requests, i + 1)

\* The position in the request list of the model the first write error is about.
FirstFailure ==
    InsertPositions(call.requests, 1)[call.exception.write_errors[1].index + 1]

RequestsAfter(k) == SubSeq(call.requests, k + 1, Len(call.requests))

IsSuffix(t, q) ==
    /\ Len(t) <= Len(q)
    /\ SubSeq(q, Len(q) - Len(t) + 1, Len(q)) = t

\* C10: after an ordered bulk_write whose first write error is about the
\* model at request index k, the processed requests are models before k
\* only, every model after k is among the unprocessed requests, and no
\* batch is dispatched after the failing one.
C10_OrderedBulkHaltsAtFirstError ==
    (BulkWriteDone /\ call.ordered /\ Len(call.exception.write_errors) > 0) =>
        /\ Len(call.exception.processed_requests) <= FirstFailure - 1
        /\ IsSuffix(RequestsAfter(FirstFailure), call.exception.unprocessed_requests)
        /\ Len(dispatched(events)) = 1

--------------------------------------------------------------------------
\* Properties of the empty insert

EmptyInsertMany == call.op = "insert_many" /\ Len(call.docs) = 0

\* C11: insert_many on an empty list of documents returns Ok with an empty
\* inserted_ids map and no bulk_write_exception, and dispatches no command
\* to the database.
C11_EmptyInsertManyDispatchesNothing ==
    EmptyInsertMany =>
        /\ ret = Ok(InsertManyResult_new(Some(map_new), None))
        /\ Len(dispatched(events)) = 0

--------------------------------------------------------------------------
\* Properties of transport errors

\* Every public method of the collection, bulk_write included.
NextWrites == Next \/ BulkWrite

SpecWrites == Init /\ [][NextWrites]_vars

\* The call dispatched a command and the database answered it with a
\* transport error instead of a reply document.
TransportFailed == Len(dispatched(events)) > 0 /\ call.reply.io

\* C12: when the dispatch of a command fails with a transport error,
\* insert_one, insert_many, delete_one, delete_many, replace_one, update_one
\* and update_many return Err with that same error, and bulk_write reports
\* the failure to its caller: it returns the error, or at least a result
\* whose bulk_write_exception is present.
C12_TransportErrorSurfaces ==
    /\ (call.op \in WriteOps /\ TransportFailed) => ret = Err(IoError)
    /\ (call.op = "bulk_write" /\ TransportFailed) =>
           \/ ("ok" \in DOMAIN ret /\ ret = Err(IoError))
           \/ ("bulk_write_exception" \in DOMAIN ret /\ is_some(ret.bulk_write_exception))

\* The part of C12 about the seven single-command write methods.
C12_SingleWritePart ==
    (call.op \in WriteOps /\ TransportFailed) => ret = Err(IoError)

--------------------------------------------------------------------------
\* Properties of the buffered connection

\* The flag and the two stream slots agree and no method has panicked.
VariantConsistent ==
    /\ conn.tls <=> is_some(conn.tls_stream)
    /\ is_some(conn.tls_stream) <=> ~is_some(conn.tcp_stream)
    /\ panic = None

\* C13: after new_tcp or new_tls and any sequence of read, read_to_end,
\* write, flush, get_ref and get_mut calls, the tls flag keeps the value the
\* constructor gave it, tls is true exactly when tls_stream is Some and
\* exactly when tcp_stream is None, and no call reaches a panic arm.
C13_VariantFixedAtConstruction ==
    /\ []VariantConsistent
    /\ [][conn'.tls = conn.tls]_vars

\* A TLS connection on which write, flush, get_mut and read_to_end have
\* acted: two bytes were sent, a timeout was set, two bytes were read.
C13_Witness ==
    /\ conn.tls
    /\ is_some(conn.tls_stream)
    /\ call.op = "read_to_end"
    /\ ret.ok
    /\ ret.val.n = 2
    /\ Sent(conn) = 2
    /\ stream_get_ref(unwrap(conn.tls_stream)).timeout = Some(1)

--------------------------------------------------------------------------
\* Properties of the id assigner

\* An insert_one or insert_many whose documents passed id assignment and
\* were dispatched.
InsertDispatched ==
    call.op \in {"insert_one", "insert_many"} /\ Len(dispatched(events)) = 1

\* The documents of the dispatched insert command.
SentDocs == unwrap(dispatched(events)[1].cmd).documents

\* The ids list the loop of insert built for the call's documents; the
\* generator's counter stood at oid_counter - needs_oid(docs) when the call began.
AssignedIds ==
    convert_docs(call.docs, 1, <<>>, <<>>, oid_counter - needs_oid(call.docs), FALSE).res.val.ids

HasId(doc) == is_some(doc_get(doc, K_id))

\* The ids list has one entry per document, ids[i] is the _id of the i-th
\* dispatched document, and a document that came with an _id is dispatched
\* unchanged.
IdsArePositional ==
    /\ Len(AssignedIds) = Len(call.docs)
    /\ Len(SentDocs) = Len(call.docs)
    /\ \A i \in 1..Len(call.docs) :
           /\ doc_get(SentDocs[i], K_id) = Some(AssignedIds[i])
           /\ HasId(call.docs[i]) => SentDocs[i] = call.docs[i]

\* A document that came without an _id is dispatched with the generated _id
\* as its first key, followed by its own keys in their order.
GeneratedIdIsFirstKey ==
    \A i \in 1..Len(call.docs) :
        ~HasId(call.docs[i]) =>
            /\ Len(SentDocs[i]) = Len(call.docs[i]) + 1
            /\ SentDocs[i][1] = [k |-> K_id, v |-> AssignedIds[i]]
            /\ SubSeq(SentDocs[i], 2, Len(SentDocs[i])) = call.docs[i]

\* C14: for an insert of n documents the ids list has n entries, ids[i] is
\* the _id of the i-th dispatched document, a document that already has an
\* _id is dispatched unchanged, and a document without one is dispatched
\* with the generated _id inserted as its first key, followed by its
\* original keys in their original order.
C14_IdsPositionalAndGeneratedIdFirst ==
    InsertDispatched => (IdsArePositional /\ GeneratedIdIsFirstKey)

\* The part of C14 about positions and about documents that came with an _id.
C14_PositionalPart == InsertDispatched => IdsArePositional

\* What the code does with a document that came without an _id: the
\* generated _id follows the document's own keys.
C14_GeneratedIdIsLastKey ==
    InsertDispatched =>
        \A i \in 1..Len(call.docs) :
            ~HasId(call.docs[i]) =>
                SentDocs[i] = Append(call.docs[i], [k |-> K_id, v |-> AssignedIds[i]])

====
